---- MODULE Spec2Model ----
(***************************************************************************)
(* EMI calculator: the validator, the input handlers and effects of the    *)
(* EMICalculator component, the installment formula of calculateEMI and    *)
(* the schedule builder of EMISchedule.                                    *)
(*                                                                         *)
(* Units.  Amounts are whole rupees.  Interest rates are held in tenths of *)
(* a percent (the step of the rate slider), so 8.5 % is 85 and the bound   *)
(* 0.7 % is 7.  The per-period rate interestRate / 12 / 100 is then the    *)
(* fraction interestRate / 12000, and interestRate / 100 is                *)
(* 12 * interestRate / 12000.                                              *)
(*                                                                         *)
(* Arithmetic.  JavaScript's numbers are modelled by exact arithmetic:     *)
(* every value the engine computes with + - * from the inputs is a         *)
(* fraction m / 12000^e with m a (long) integer, and the three divisions   *)
(* of the code give quotients of two such fractions.  Long integers are    *)
(* sequences of base-1000 limbs, least significant first.  Floating-point  *)
(* rounding error (about 1e-16 relative per operation) is not modelled.    *)
(***************************************************************************)
EXTENDS Integers, Sequences, FiniteSets, Bags, TLC

(***************************************************************************)
(* Bounds of the model: how many user events a run of the component takes, *)
(* the values a user enters, and the requests the engine is run on.        *)
(***************************************************************************)
MaxEvents == 3

PrincipalInputs == {50000, 30000000}
InterestInputs == {30, 400}
TenureInputs == {0, 100}
PrepaymentInputs == {100000, 1000000}

MaxEngineTenure == 14

EngineLoanTypes == {"home", "car"}
EnginePrincipals == {100100, 1000000}
EngineRates == {0, 7, 50, 84, 120}
EnginePrepayments == {0, 100000, 100090}

Max2(a, b) == IF a > b THEN a ELSE b
Min2(a, b) == IF a < b THEN a ELSE b

(***************************************************************************)
(* Magnitudes: natural numbers of any size.  <<>> is 0; the top limb of a  *)
(* canonical magnitude is not 0.                                           *)
(***************************************************************************)
\* a without the zero limbs at its top
MTrim(a) ==
  IF a = <<>> \/ a[Len(a)] # 0 THEN a
  ELSE IF \A j \in 1..Len(a) : a[j] = 0 THEN <<>>
  ELSE SubSeq(a, 1, CHOOSE j \in 1..Len(a) : a[j] # 0 /\ \A k \in (j + 1)..Len(a) : a[k] = 0)

RECURSIVE MFromNat(_)
MFromNat(n) == IF n = 0 THEN <<>> ELSE <<n % 1000>> \o MFromNat(n \div 1000)

Limb(a, i) == IF i <= Len(a) THEN a[i] ELSE 0

\* one carry pass: a limb keeps its low part and receives the high part of the limb below
MPass(t) ==
  <<>> \o [i \in 1..(Len(t) + 1) |->
             (IF i <= Len(t) THEN t[i] % 1000 ELSE 0) + (IF i > 1 THEN t[i - 1] \div 1000 ELSE 0)]

\* the carry (0 or 1) into limb i of w, whose limbs are all below 2000: a limb of 1000
\* or more below i carries through the limbs of 999 between
CarryIn(w, i) ==
  IF i = 1 THEN 0
  ELSE IF w[i - 1] >= 1000 THEN 1
  ELSE IF w[i - 1] < 999 THEN 0
  ELSE IF \E j \in 1..(i - 2) : w[j] >= 1000 /\ \A k \in (j + 1)..(i - 2) : w[k] = 999 THEN 1
  ELSE 0

MRipple(w) ==
  MTrim(<<>> \o [i \in 1..(Len(w) + 1) |-> (Limb(w, i) + CarryIn(w, i)) % 1000])

\* limbs below 2^31 -> canonical limbs (one pass is enough for limbs below 10^6)
MCarry(t) == MRipple(MPass(MPass(MPass(t))))

\* -1, 0, 1 as a < b, a = b, a > b: the highest limb that differs decides
MCmp(a, b) ==
  IF a = b THEN 0
  ELSE IF Len(a) < Len(b) THEN -1
  ELSE IF Len(a) > Len(b) THEN 1
  ELSE LET d == IF a[Len(a)] # b[Len(a)] THEN Len(a)
                ELSE CHOOSE j \in 1..Len(a) : a[j] # b[j] /\ \A k \in (j + 1)..Len(a) : a[k] = b[k]
       IN  IF a[d] < b[d] THEN -1 ELSE 1

MAdd(a, b) == MRipple(<<>> \o [i \in 1..Max2(Len(a), Len(b)) |-> Limb(a, i) + Limb(b, i)])

\* the borrow (0 or 1) out of the limbs below i of the limb differences t: a negative
\* limb below i borrows through the limbs of 0 between
BorrowIn(t, i) ==
  IF i = 1 THEN 0
  ELSE IF t[i - 1] < 0 THEN 1
  ELSE IF t[i - 1] > 0 THEN 0
  ELSE IF \E j \in 1..(i - 2) : t[j] < 0 /\ \A k \in (j + 1)..(i - 2) : t[k] = 0 THEN 1
  ELSE 0

\* a - b for a >= b
MSub(a, b) ==
  LET t == <<>> \o [i \in 1..Len(a) |-> a[i] - Limb(b, i)]
  IN  MTrim(<<>> \o [i \in 1..Len(a) |-> (t[i] - BorrowIn(t, i) + 1000) % 1000])

\* limb k of the product before carrying: the sum of a[i] * b[k + 1 - i], i in lo..hi
Conv(a, b, k, lo, hi) ==
  BagCardinality([i \in lo..hi |-> a[i] * b[k + 1 - i] + 1]) - (hi - lo + 1)

MMul(a, b) ==
  IF a = <<>> \/ b = <<>> THEN <<>>
  ELSE LET t == <<>> \o [k \in 1..(Len(a) + Len(b) - 1) |->
                           Conv(a, b, k, Max2(1, k + 1 - Len(b)), Min2(k, Len(a)))]
       IN  IF Len(a) = 1 \/ Len(b) = 1 THEN MRipple(MPass(t)) ELSE MCarry(t)

RECURSIVE MPow(_, _)
MPow(m, n) ==
  IF n = 0 THEN <<1>>
  ELSE LET h == MPow(m, n \div 2)
           s == MMul(h, h)
       IN  IF n % 2 = 1 THEN MMul(s, m) ELSE s

\* the q in lo..hi-1 with q * b <= a < (q + 1) * b, given lo * b <= a < hi * b
RECURSIVE MDivBis(_, _, _, _)
MDivBis(a, b, lo, hi) ==
  IF hi - lo <= 1 THEN lo
  ELSE LET mid == lo + (hi - lo) \div 2
       IN  IF MCmp(MMul(b, MFromNat(mid)), a) <= 0
           THEN MDivBis(a, b, mid, hi) ELSE MDivBis(a, b, lo, mid)

\* floor(r / b) for 0 <= r < 1000 * b: one digit of a long division, estimated from the
\* top limbs of r and b and settled by MDivBis where the estimate leaves two candidates
MDigit(r, b) ==
  IF MCmp(r, b) < 0 THEN 0
  ELSE IF Len(b) = 1 THEN (r[1] + 1000 * Limb(r, 2)) \div b[1]
  ELSE LET L  == Len(b)
           bt == b[L] * 1000 + b[L - 1]
           rt == Limb(r, L + 1) * 1000000 + r[L] * 1000 + r[L - 1]
           lo == rt \div (bt + 1)
           hi == Min2(999, (rt + 1) \div bt)
       IN  IF lo = hi THEN lo ELSE MDivBis(r, b, lo, hi + 1)

\* long division: limbs i, i-1, .. 1 of a are still to bring down, rem < b is the
\* remainder and q the quotient of the limbs above them
RECURSIVE MLongDiv(_, _, _, _, _)
MLongDiv(a, b, i, rem, q) ==
  IF i = 0 THEN q
  ELSE LET r == MTrim(<<a[i]>> \o rem)
           d == MDigit(r, b)
       IN  IF d = 0 THEN MLongDiv(a, b, i - 1, r, q * 1000)
           ELSE MLongDiv(a, b, i - 1, MSub(r, MMul(b, MFromNat(d))), q * 1000 + d)

\* floor(a / b) as an integer, for b > 0 and a quotient below 2^31 - 2.  The quotient
\* is first bracketed from the top limbs of a and b; the bracket is a single number
\* unless a / b is within 1e-15 (relative) of an integer, and then the full numbers decide.
MFloorDiv(a, b) ==
  LET s  == Max2(0, Len(b) - 6)
      a1 == IF Len(a) > s THEN SubSeq(a, s + 1, Len(a)) ELSE <<>>
      b1 == SubSeq(b, s + 1, Len(b))
      lo == MLongDiv(a1, MAdd(b1, <<1>>), Len(a1), <<>>, 0)
      hi == MLongDiv(MAdd(a1, <<1>>), b1, Len(MAdd(a1, <<1>>)), <<>>, 0)
  IN  IF s = 0 THEN MLongDiv(a, b, Len(a), <<>>, 0)
      ELSE IF MCmp(MMul(b1, MFromNat(lo + 1)), MAdd(a1, <<1>>)) > 0 THEN lo
      ELSE MDivBis(a, b, lo, hi + 1)

\* The powers the component's runs ask for, computed once: 1 + r is (12000 + k) / 12000
\* for k = interestRate (annual) or 12 * interestRate (monthly), over tenure periods.
PowArgs ==
  { <<MFromNat(12000 + c * i), n>> :
      c \in {0, 1, 12}, i \in InterestInputs \cup {85, 7, 50, 300}, n \in TenureInputs \cup {120, 84, 60} }

PowTable == [k \in PowArgs |-> MPow(k[1], k[2])]

\* m^n
MPower(m, n) == IF <<m, n>> \in PowArgs THEN PowTable[<<m, n>>] ELSE MPow(m, n)

(***************************************************************************)
(* Integers of any size: a sign and a magnitude; 0 is never negative.      *)
(***************************************************************************)
ZOf(n) == [neg |-> n < 0, mag |-> MFromNat(IF n < 0 THEN 0 - n ELSE n)]

ZNeg(a) == IF a.mag = <<>> THEN a ELSE [neg |-> ~a.neg, mag |-> a.mag]

ZAdd(a, b) ==
  IF a.neg = b.neg THEN [neg |-> a.neg, mag |-> MAdd(a.mag, b.mag)]
  ELSE LET c == MCmp(a.mag, b.mag)
       IN  IF c = 0 THEN [neg |-> FALSE, mag |-> <<>>]
           ELSE IF c > 0 THEN [neg |-> a.neg, mag |-> MSub(a.mag, b.mag)]
           ELSE [neg |-> b.neg, mag |-> MSub(b.mag, a.mag)]

ZSub(a, b) == ZAdd(a, ZNeg(b))

ZMul(a, b) ==
  LET m == MMul(a.mag, b.mag)
  IN  [neg |-> (m # <<>>) /\ (a.neg # b.neg), mag |-> m]

\* -1, 0, 1 as a < 0, a = 0, a > 0
ZSign(a) == IF a.mag = <<>> THEN 0 ELSE IF a.neg THEN -1 ELSE 1

ZCmp(a, b) == ZSign(ZSub(a, b))

\* floor(a / b) as an integer, for b > 0
ZFloorDiv(a, b) ==
  IF ~a.neg THEN MFloorDiv(a.mag, b.mag)
  ELSE 0 - MFloorDiv(MSub(MAdd(a.mag, b.mag), <<1>>), b.mag)

(***************************************************************************)
(* Fractions m / 12000^e: the numbers the engine reaches with + - * from   *)
(* integer amounts and the per-period rate.                                *)
(***************************************************************************)
NOf(n) == [m |-> ZOf(n), e |-> 0]

\* n / 12000
NFrac(n) == [m |-> ZOf(n), e |-> 1]

\* the numerator of a over 12000^e, for e >= a.e
NUp(a, e) ==
  IF e = a.e THEN a.m ELSE ZMul(a.m, [neg |-> FALSE, mag |-> MPower(<<0, 12>>, e - a.e)])

NAdd(a, b) ==
  LET e == Max2(a.e, b.e) IN [m |-> ZAdd(NUp(a, e), NUp(b, e)), e |-> e]

NSub(a, b) ==
  LET e == Max2(a.e, b.e) IN [m |-> ZSub(NUp(a, e), NUp(b, e)), e |-> e]

NMul(a, b) == [m |-> ZMul(a.m, b.m), e |-> a.e + b.e]

\* Math.pow(a, n) for a natural number n
NPow(a, n) ==
  [m |-> [neg |-> a.m.neg /\ n % 2 = 1, mag |-> MPower(a.m.mag, n)], e |-> a.e * n]

\* -1, 0, 1 as a < b, a = b, a > b
NCmp(a, b) ==
  LET e == Max2(a.e, b.e) IN ZCmp(NUp(a, e), NUp(b, e))

NSign(a) == ZSign(a.m)

\* Math.max(a, b)
NMax(a, b) == IF NCmp(a, b) >= 0 THEN a ELSE b

(***************************************************************************)
(* Quotients num / den of two long integers, den >= 0.  As in JavaScript,  *)
(* x / 0 is Infinity or -Infinity by the sign of x, and 0 / 0 is NaN.      *)
(***************************************************************************)
\* a / b
QDiv(a, b) ==
  LET e == Max2(a.e, b.e)
      n == NUp(a, e)
      d == NUp(b, e)
  IN  [num |-> IF d.neg THEN ZNeg(n) ELSE n, den |-> [neg |-> FALSE, mag |-> d.mag]]

\* q * n for an integer n
QMulInt(q, n) == [num |-> ZMul(q.num, ZOf(n)), den |-> q.den]

\* q - p for an integer p
QSubInt(q, p) == [num |-> ZSub(q.num, ZMul(ZOf(p), q.den)), den |-> q.den]

\* -1, 0, 1 as p < q, p = q, p > q, for finite p and q
QCmp(p, q) == ZCmp(ZMul(p.num, q.den), ZMul(q.num, p.den))

QIsNaN(q) == q.den.mag = <<>> /\ q.num.mag = <<>>

QIsFinite(q) == q.den.mag # <<>>

(***************************************************************************)
(* The numbers held in emi, totalAmount and totalInterest: an integer, or  *)
(* NaN, Infinity, -Infinity.                                               *)
(***************************************************************************)
JsInt(i) == [k |-> "finite", v |-> i]

JsNaN == [k |-> "NaN", v |-> 0]

JsInfinity(sign) == [k |-> IF sign > 0 THEN "Infinity" ELSE "-Infinity", v |-> sign]

\* x > 0
JsPositive(x) == (x.k = "finite" /\ x.v > 0) \/ x.k = "Infinity"

\* Math.round(q): the integer nearest to q, a tie going up
MathRound(q) ==
  IF QIsNaN(q) THEN JsNaN
  ELSE IF ~QIsFinite(q) THEN JsInfinity(ZSign(q.num))
  ELSE JsInt(ZFloorDiv(ZAdd(ZAdd(q.num, q.num), q.den), ZAdd(q.den, q.den)))

(***************************************************************************)
(* The component's configuration and state.                                *)
(***************************************************************************)
LoanType == {"home", "car", "personal", "education", "business"}

\* interest bounds in tenths of a percent
LOAN_CONFIGS ==
  [home      |-> [type |-> "home", minAmount |-> 100000, maxAmount |-> 10000000,
                  minAnnualInterest |-> 50, maxAnnualInterest |-> 300,
                  minMonthlyInterest |-> 7, maxMonthlyInterest |-> 50, maxTenure |-> 360],
   car       |-> [type |-> "car", minAmount |-> 50000, maxAmount |-> 2000000,
                  minAnnualInterest |-> 50, maxAnnualInterest |-> 300,
                  minMonthlyInterest |-> 7, maxMonthlyInterest |-> 50, maxTenure |-> 84],
   personal  |-> [type |-> "personal", minAmount |-> 10000, maxAmount |-> 1000000,
                  minAnnualInterest |-> 50, maxAnnualInterest |-> 300,
                  minMonthlyInterest |-> 7, maxMonthlyInterest |-> 50, maxTenure |-> 60],
   education |-> [type |-> "education", minAmount |-> 50000, maxAmount |-> 5000000,
                  minAnnualInterest |-> 50, maxAnnualInterest |-> 300,
                  minMonthlyInterest |-> 7, maxMonthlyInterest |-> 50, maxTenure |-> 180],
   business  |-> [type |-> "business", minAmount |-> 100000, maxAmount |-> 20000000,
                  minAnnualInterest |-> 50, maxAnnualInterest |-> 300,
                  minMonthlyInterest |-> 7, maxMonthlyInterest |-> 50, maxTenure |-> 120]]

\* the keys of ValidationError
Fields == {"principal", "interestRate", "tenure"}

\* an absent (undefined) rejection message
Undefined == <<>>

VARIABLES
  loanType,          \* useState<LoanType>('home')
  principal,         \* useState(1000000)
  interestRate,      \* useState(8.5), in tenths of a percent
  tenure,            \* useState(120)
  emi,               \* useState(0)
  totalAmount,       \* useState(0)
  totalInterest,     \* useState(0)
  isAnnualRate,      \* useState(true)
  errors,            \* useState<ValidationError>({})
  prepaymentAmount,  \* useState(0)
  pendingClamp,      \* the effect on [loanType, isAnnualRate] is due in this commit
  pendingCalc,       \* the effect on [principal, interestRate, tenure, prepaymentAmount, isAnnualRate] is due
  rows,              \* EMISchedule's schedule, <<>> while it is not rendered
  phase,             \* "ui" in the component; "request", "calculated", "rendered" in the engine runs
  last,              \* the last user event: [op, arg]
  nEvents            \* user events so far

vars == <<loanType, principal, interestRate, tenure, emi, totalAmount, totalInterest,
          isAnnualRate, errors, prepaymentAmount, pendingClamp, pendingCalc, rows, phase,
          last, nEvents>>

results == <<emi, totalAmount, totalInterest>>

currentLoanConfig == LOAN_CONFIGS[loanType]

\* Intl.NumberFormat('en-IN', {style: 'currency', currency: 'INR', maximumFractionDigits: 0})
formatCurrency(amount) == <<"INR", amount>>

\* Mutant of validateInputs: the rate is held against the annual bounds in both conventions.
validateInputsAnnualOnly(value, type) ==
  CASE type = "principal" ->
         IF value < currentLoanConfig.minAmount
         THEN <<"Minimum loan amount is", formatCurrency(currentLoanConfig.minAmount)>>
         ELSE IF value > currentLoanConfig.maxAmount
         THEN <<"Maximum loan amount is", formatCurrency(currentLoanConfig.maxAmount)>>
         ELSE Undefined
    [] type = "interestRate" ->
         IF value < currentLoanConfig.minAnnualInterest
         THEN <<"Minimum annual interest rate is", currentLoanConfig.minAnnualInterest, "%">>
         ELSE IF value > currentLoanConfig.maxAnnualInterest
         THEN <<"Maximum annual interest rate is", currentLoanConfig.maxAnnualInterest, "%">>
         ELSE Undefined
    [] type = "tenure" ->
         IF value < 1 THEN <<"Minimum tenure is 1 month">>
         ELSE IF value > currentLoanConfig.maxTenure
         THEN <<"Maximum tenure is", currentLoanConfig.maxTenure, "months">>
         ELSE Undefined

(***************************************************************************)
(* validateInputs: the rejection message for value in field type, or       *)
(* Undefined.  It reads the render's loanType and isAnnualRate.            *)
(***************************************************************************)
validateInputs(value, type) ==
  CASE type = "principal" ->
         IF value < currentLoanConfig.minAmount
         THEN <<"Minimum loan amount is", formatCurrency(currentLoanConfig.minAmount)>>
         ELSE IF value > currentLoanConfig.maxAmount
         THEN <<"Maximum loan amount is", formatCurrency(currentLoanConfig.maxAmount)>>
         ELSE Undefined
    [] type = "interestRate" ->
         IF isAnnualRate
         THEN IF value < currentLoanConfig.minAnnualInterest
              THEN <<"Minimum annual interest rate is", currentLoanConfig.minAnnualInterest, "%">>
              ELSE IF value > currentLoanConfig.maxAnnualInterest
              THEN <<"Maximum annual interest rate is", currentLoanConfig.maxAnnualInterest, "%">>
              ELSE Undefined
         ELSE IF value < currentLoanConfig.minMonthlyInterest
              THEN <<"Minimum monthly interest rate is", currentLoanConfig.minMonthlyInterest, "%">>
              ELSE IF value > currentLoanConfig.maxMonthlyInterest
              THEN <<"Maximum monthly interest rate is", currentLoanConfig.maxMonthlyInterest, "%">>
              ELSE Undefined
    [] type = "tenure" ->
         IF value < 1 THEN <<"Minimum tenure is 1 month">>
         ELSE IF value > currentLoanConfig.maxTenure
         THEN <<"Maximum tenure is", currentLoanConfig.maxTenure, "months">>
         ELSE Undefined

\* Object.values(errors).some(error => error)
HasErrors == \E f \in Fields : errors[f] # Undefined

\* Mutant of calculateEMI: totalInterest is taken against the whole principal, the
\* prepayment forgotten.
calculateEMIGross ==
  IF HasErrors THEN UNCHANGED results
  ELSE LET p        == principal - prepaymentAmount
           r        == IF isAnnualRate THEN NFrac(interestRate) ELSE NFrac(12 * interestRate)
           n        == tenure
       IN  \E pow \in {NPow(NAdd(NOf(1), r), n)} :
           \E emi0 \in {QDiv(NMul(NMul(NOf(p), r), pow), NSub(pow, NOf(1)))} :
           \E totalAmt \in {QMulInt(emi0, n)} :
             /\ emi' = MathRound(emi0)
             /\ totalAmount' = MathRound(totalAmt)
             /\ totalInterest' = MathRound(QSubInt(totalAmt, principal))

(***************************************************************************)
(* calculateEMI: writes emi, totalAmount and totalInterest from the        *)
(* render's state, or returns early when a field carries a message.  The   *)
(* power, the unrounded installment and the unrounded total are each bound *)
(* to the one value the code computes for them.                            *)
(***************************************************************************)
calculateEMI ==
  IF HasErrors THEN UNCHANGED results
  ELSE LET p        == principal - prepaymentAmount
           r        == IF isAnnualRate THEN NFrac(interestRate) ELSE NFrac(12 * interestRate)
           n        == tenure
       IN  \E pow \in {NPow(NAdd(NOf(1), r), n)} :
           \E emi0 \in {QDiv(NMul(NMul(NOf(p), r), pow), NSub(pow, NOf(1)))} :
           \E totalAmt \in {QMulInt(emi0, n)} :
             /\ emi' = MathRound(emi0)
             /\ totalAmount' = MathRound(totalAmt)
             /\ totalInterest' = MathRound(QSubInt(totalAmt, p))

(***************************************************************************)
(* The effect on [loanType, isAnnualRate]: clamps the held values into the *)
(* bounds of the selected category and convention.                         *)
(***************************************************************************)
ClampEffect ==
  LET config == LOAN_CONFIGS[loanType]
  IN  /\ principal' = Min2(Max2(principal, config.minAmount), config.maxAmount)
      /\ interestRate' =
           IF isAnnualRate
           THEN Min2(Max2(interestRate, config.minAnnualInterest), config.maxAnnualInterest)
           ELSE Min2(Max2(interestRate, config.minMonthlyInterest), config.maxMonthlyInterest)
      /\ tenure' = Min2(tenure, config.maxTenure)

(***************************************************************************)
(* One commit's effects.  Both effects read the state of the render they   *)
(* belong to; their updates are applied together, and the calculating      *)
(* effect is due again when the clamp changed one of its dependencies.     *)
(***************************************************************************)
RunEffects ==
  /\ phase = "ui"
  /\ pendingClamp \/ pendingCalc
  /\ IF pendingClamp THEN ClampEffect ELSE UNCHANGED <<principal, interestRate, tenure>>
  /\ IF pendingCalc THEN calculateEMI ELSE UNCHANGED results
  /\ pendingClamp' = FALSE
  /\ pendingCalc' = (<<principal', interestRate', tenure'>> # <<principal, interestRate, tenure>>)
  /\ UNCHANGED <<loanType, isAnnualRate, errors, prepaymentAmount, rows, phase, last, nEvents>>

\* an event handler runs once the effects of the last commit have run
Idle == phase = "ui" /\ ~pendingClamp /\ ~pendingCalc /\ nEvents < MaxEvents

\* Mutant of handlePrincipalChange: the entered value is corrected into the bounds
\* before it is stored.
handlePrincipalChangeClamped(value) ==
  /\ Idle
  /\ LET error == validateInputs(value, "principal")
     IN  errors' = [errors EXCEPT !.principal = error]
  /\ principal' = Min2(Max2(value, currentLoanConfig.minAmount), currentLoanConfig.maxAmount)
  /\ pendingCalc' = (principal' # principal)
  /\ last' = [op |-> "principal", arg |-> value]
  /\ nEvents' = nEvents + 1
  /\ UNCHANGED <<loanType, interestRate, tenure, emi, totalAmount, totalInterest,
                 isAnnualRate, prepaymentAmount, pendingClamp, rows, phase>>

handlePrincipalChange(value) ==
  /\ Idle
  /\ LET error == validateInputs(value, "principal")
     IN  errors' = [errors EXCEPT !.principal = error]
  /\ principal' = value
  /\ pendingCalc' = (value # principal)
  /\ last' = [op |-> "principal", arg |-> value]
  /\ nEvents' = nEvents + 1
  /\ UNCHANGED <<loanType, interestRate, tenure, emi, totalAmount, totalInterest,
                 isAnnualRate, prepaymentAmount, pendingClamp, rows, phase>>

handleInterestChange(value) ==
  /\ Idle
  /\ LET error == validateInputs(value, "interestRate")
     IN  errors' = [errors EXCEPT !.interestRate = error]
  /\ interestRate' = value
  /\ pendingCalc' = (value # interestRate)
  /\ last' = [op |-> "interestRate", arg |-> value]
  /\ nEvents' = nEvents + 1
  /\ UNCHANGED <<loanType, principal, tenure, emi, totalAmount, totalInterest,
                 isAnnualRate, prepaymentAmount, pendingClamp, rows, phase>>

handleTenureChange(value) ==
  /\ Idle
  /\ LET error == validateInputs(value, "tenure")
     IN  errors' = [errors EXCEPT !.tenure = error]
  /\ tenure' = value
  /\ pendingCalc' = (value # tenure)
  /\ last' = [op |-> "tenure", arg |-> value]
  /\ nEvents' = nEvents + 1
  /\ UNCHANGED <<loanType, principal, interestRate, emi, totalAmount, totalInterest,
                 isAnnualRate, prepaymentAmount, pendingClamp, rows, phase>>

\* the loan type select: onChange={(e) => setLoanType(e.target.value as LoanType)}
setLoanType(value) ==
  /\ Idle
  /\ value # loanType
  /\ loanType' = value
  /\ pendingClamp' = TRUE
  /\ last' = [op |-> "loanType", arg |-> value]
  /\ nEvents' = nEvents + 1
  /\ UNCHANGED <<principal, interestRate, tenure, emi, totalAmount, totalInterest,
                 isAnnualRate, errors, prepaymentAmount, pendingCalc, rows, phase>>

\* the two rate type buttons: onClick={() => setIsAnnualRate(true)} and (false);
\* a click on the selected one changes no state
setIsAnnualRate(value) ==
  /\ Idle
  /\ value # isAnnualRate
  /\ isAnnualRate' = value
  /\ pendingClamp' = TRUE
  /\ pendingCalc' = TRUE
  /\ last' = [op |-> "isAnnualRate", arg |-> value]
  /\ nEvents' = nEvents + 1
  /\ UNCHANGED <<loanType, principal, interestRate, tenure, emi, totalAmount, totalInterest,
                 errors, prepaymentAmount, rows, phase>>

\* the prepayment input: onChange={(e) => setPrepaymentAmount(Number(e.target.value))}
setPrepaymentAmount(value) ==
  /\ Idle
  /\ prepaymentAmount' = value
  /\ pendingCalc' = (value # prepaymentAmount)
  /\ last' = [op |-> "prepaymentAmount", arg |-> value]
  /\ nEvents' = nEvents + 1
  /\ UNCHANGED <<loanType, principal, interestRate, tenure, emi, totalAmount, totalInterest,
                 isAnnualRate, errors, pendingClamp, rows, phase>>

(***************************************************************************)
(* EMISchedule's schedule (useMemo).  A row's date is held as the number   *)
(* of months added to the start date; its amounts are exact fractions, its *)
(* effectiveRate a quotient.  The emi prop is a finite integer whenever    *)
(* the tenure is at least 1.                                               *)
(***************************************************************************)
paymentsPerYear == 12

\* q for an integer q
QOfInt(i) == [num |-> ZOf(i), den |-> ZOf(1)]

\* Mutant of monthlyRate: interestRate / 100 in both conventions.
monthlyRateUndivided(rate, annual) == NFrac(12 * rate)

\* const monthlyRate = isAnnualRate ? interestRate / 12 / 100 : interestRate / 100
monthlyRate(rate, annual) == IF annual THEN NFrac(rate) ELSE NFrac(12 * rate)

\* Mutant of years: the tenure's last, shorter year is dropped.
yearsFloor(n) == n \div paymentsPerYear

\* const years = Math.ceil(tenure / paymentsPerYear)
years(n) == (n + paymentsPerYear - 1) \div paymentsPerYear

\* effectiveRate of an annual row:
\* (startingBalance > 0) ? (yearlyInterest / startingBalance) * 100 : 0
effectiveRateAnnual(yearlyInterest, startingBalance) ==
  IF NSign(startingBalance) > 0
  THEN QMulInt(QDiv(yearlyInterest, startingBalance), 100)
  ELSE QOfInt(0)

\* Mutant of effectiveRateMonthly: the rate of the month is not annualized.
effectiveRateMonthlyPlain(interest, startingBalance) ==
  IF NSign(startingBalance) > 0
  THEN QMulInt(QDiv(interest, startingBalance), 100)
  ELSE QOfInt(0)

\* effectiveRate of a monthly row:
\* (startingBalance > 0) ? (interest / startingBalance) * 100 * 12 : 0
effectiveRateMonthly(interest, startingBalance) ==
  IF NSign(startingBalance) > 0
  THEN QMulInt(QMulInt(QDiv(interest, startingBalance), 100), 12)
  ELSE QOfInt(0)

\* the monthly branch: for (let month = 1; month <= tenure; month++) { ... rows.push(...) };
\* st holds the loop's variables
RECURSIVE monthlyLoop(_, _, _, _)
monthlyLoop(st, n, e, r) ==
  IF st.month <= n
  THEN LET startingBalance == st.balance
           interest        == NMul(st.balance, r)
           principalPaid   == NSub(NOf(e), interest)
           balance         == NSub(st.balance, principalPaid)
           paid            == NAdd(st.totalPrincipalPaid, principalPaid)
           interestPaid    == NAdd(st.totalInterestPaid, interest)
           row == [month              |-> st.month,
                   date               |-> st.month - 1,
                   emi                |-> e,
                   principal          |-> principalPaid,
                   interest           |-> interest,
                   balance            |-> NMax(NOf(0), balance),
                   totalPrincipalPaid |-> paid,
                   totalInterestPaid  |-> interestPaid,
                   effectiveRate      |-> effectiveRateMonthly(interest, startingBalance)]
       IN  monthlyLoop([month |-> st.month + 1, balance |-> balance,
                        totalPrincipalPaid |-> paid, totalInterestPaid |-> interestPaid,
                        rows |-> Append(st.rows, row)], n, e, r)
  ELSE st.rows

\* the inner loop of the annual branch: the months of one year, up to the tenure
RECURSIVE yearLoop(_, _, _, _, _)
yearLoop(acc, year, n, e, r) ==
  IF acc.month < paymentsPerYear /\ year * paymentsPerYear + acc.month < n
  THEN LET monthlyInterest  == NMul(acc.balance, r)
           monthlyPrincipal == NSub(NOf(e), monthlyInterest)
       IN  yearLoop([month           |-> acc.month + 1,
                     yearlyInterest  |-> NAdd(acc.yearlyInterest, monthlyInterest),
                     yearlyPrincipal |-> NAdd(acc.yearlyPrincipal, monthlyPrincipal),
                     balance         |-> NSub(acc.balance, monthlyPrincipal)],
                    year, n, e, r)
  ELSE acc

\* the annual branch: for (let year = 0; year < years; year++) { ... rows.push(...) }
RECURSIVE annualLoop(_, _, _, _)
annualLoop(st, n, e, r) ==
  IF st.year < years(n)
  THEN LET startingBalance == st.balance
           y == yearLoop([month |-> 0, yearlyInterest |-> NOf(0), yearlyPrincipal |-> NOf(0),
                          balance |-> st.balance], st.year, n, e, r)
           paid         == NAdd(st.totalPrincipalPaid, y.yearlyPrincipal)
           interestPaid == NAdd(st.totalInterestPaid, y.yearlyInterest)
           row == [month              |-> st.year + 1,
                   date               |-> st.year * paymentsPerYear,
                   emi                |-> e * paymentsPerYear,
                   principal          |-> y.yearlyPrincipal,
                   interest           |-> y.yearlyInterest,
                   balance            |-> NMax(NOf(0), y.balance),
                   totalPrincipalPaid |-> paid,
                   totalInterestPaid  |-> interestPaid,
                   effectiveRate      |-> effectiveRateAnnual(y.yearlyInterest, startingBalance)]
       IN  annualLoop([year |-> st.year + 1, balance |-> y.balance,
                       totalPrincipalPaid |-> paid, totalInterestPaid |-> interestPaid,
                       rows |-> Append(st.rows, row)], n, e, r)
  ELSE st.rows

\* the rows for the props (principal, interestRate, tenure, emi, prepaymentAmount, isAnnualRate)
schedule(p0, rate, n, e, prepayment, annual) ==
  LET r       == monthlyRate(rate, annual)
      balance == NOf(p0 - prepayment)
      paid    == NOf(prepayment)
  IN  IF annual
      THEN annualLoop([year |-> 0, balance |-> balance, totalPrincipalPaid |-> paid,
                       totalInterestPaid |-> NOf(0), rows |-> <<>>], n, e, r)
      ELSE monthlyLoop([month |-> 1, balance |-> balance, totalPrincipalPaid |-> paid,
                        totalInterestPaid |-> NOf(0), rows |-> <<>>], n, e, r)

\* the component after construction: the useState defaults, both effects due on mount
Init ==
  /\ loanType = "home"
  /\ principal = 1000000
  /\ interestRate = 85
  /\ tenure = 120
  /\ emi = JsInt(0)
  /\ totalAmount = JsInt(0)
  /\ totalInterest = JsInt(0)
  /\ isAnnualRate = TRUE
  /\ errors = [f \in Fields |-> Undefined]
  /\ prepaymentAmount = 0
  /\ pendingClamp = TRUE
  /\ pendingCalc = TRUE
  /\ rows = <<>>
  /\ phase = "ui"
  /\ last = [op |-> "mount", arg |-> 0]
  /\ nEvents = 0

Next ==
  \/ RunEffects
  \/ \E value \in PrincipalInputs : handlePrincipalChange(value)
  \/ \E value \in InterestInputs : handleInterestChange(value)
  \/ \E value \in TenureInputs : handleTenureChange(value)
  \/ \E value \in LoanType : setLoanType(value)
  \/ \E value \in BOOLEAN : setIsAnnualRate(value)
  \/ \E value \in PrepaymentInputs : setPrepaymentAmount(value)

Spec == Init /\ [][Next]_vars

(***************************************************************************)
(* The engine on one request: calculateEMI applied to a request that       *)
(* carries no rejection message, then EMISchedule rendered on its result   *)
(* under the guard of the component's JSX.                                 *)
(***************************************************************************)
InitEngine ==
  /\ loanType \in EngineLoanTypes
  /\ principal \in EnginePrincipals
  /\ interestRate \in EngineRates
  /\ tenure \in 1..MaxEngineTenure
  /\ prepaymentAmount \in EnginePrepayments
  /\ isAnnualRate \in BOOLEAN
  /\ emi = JsInt(0)
  /\ totalAmount = JsInt(0)
  /\ totalInterest = JsInt(0)
  /\ errors = [f \in Fields |-> Undefined]
  /\ pendingClamp = FALSE
  /\ pendingCalc = TRUE
  /\ rows = <<>>
  /\ phase = "request"
  /\ last = [op |-> "request", arg |-> 0]
  /\ nEvents = 0

\* useEffect(() => { calculateEMI() }, [...])
EngineCalculate ==
  /\ phase = "request"
  /\ calculateEMI
  /\ phase' = "calculated"
  /\ pendingCalc' = FALSE
  /\ UNCHANGED <<loanType, principal, interestRate, tenure, isAnnualRate, errors,
                 prepaymentAmount, pendingClamp, rows, last, nEvents>>

\* {!Object.values(errors).some(error => error) && emi > 0 && (<EMISchedule ... />)}
EngineRender ==
  /\ phase = "calculated"
  /\ ~HasErrors
  /\ JsPositive(emi)
  /\ rows' = schedule(principal, interestRate, tenure, emi.v, prepaymentAmount, isAnnualRate)
  /\ phase' = "rendered"
  /\ UNCHANGED <<loanType, principal, interestRate, tenure, emi, totalAmount, totalInterest,
                 isAnnualRate, errors, prepaymentAmount, pendingClamp, pendingCalc, last,
                 nEvents>>

NextEngine ==
  \/ EngineCalculate
  \/ EngineRender

SpecEngine == InitEngine /\ [][NextEngine]_vars

(***************************************************************************)
(* Bounds and validity of a request, as the properties below state them.   *)
(***************************************************************************)
\* the value held in field f
FieldValue(f) ==
  CASE f = "principal" -> principal
    [] f = "interestRate" -> interestRate
    [] f = "tenure" -> tenure

\* the lower and upper bound of field f in the selected category and convention
LowerBound(f) ==
  CASE f = "principal" -> LOAN_CONFIGS[loanType].minAmount
    [] f = "interestRate" -> IF isAnnualRate THEN LOAN_CONFIGS[loanType].minAnnualInterest
                                            ELSE LOAN_CONFIGS[loanType].minMonthlyInterest
    [] f = "tenure" -> 1

UpperBound(f) ==
  CASE f = "principal" -> LOAN_CONFIGS[loanType].maxAmount
    [] f = "interestRate" -> IF isAnnualRate THEN LOAN_CONFIGS[loanType].maxAnnualInterest
                                            ELSE LOAN_CONFIGS[loanType].maxMonthlyInterest
    [] f = "tenure" -> LOAN_CONFIGS[loanType].maxTenure

InBounds(f) == LowerBound(f) <= FieldValue(f) /\ FieldValue(f) <= UpperBound(f)

\* validated inputs: every field inside its bounds and 0 <= prepayment < principal
ValidRequest ==
  /\ \A f \in Fields : InBounds(f)
  /\ 0 <= prepaymentAmount
  /\ prepaymentAmount < principal

Abs(i) == IF i < 0 THEN 0 - i ELSE i

(***************************************************************************)
(* Properties of the component's runs (Spec).                              *)
(***************************************************************************)
\* the message the validator is to give for a value below, and above, the bounds of f
MinimumMessage(f) ==
  CASE f = "principal" -> <<"Minimum loan amount is", <<"INR", LowerBound(f)>>>>
    [] f = "interestRate" ->
         <<IF isAnnualRate THEN "Minimum annual interest rate is"
                           ELSE "Minimum monthly interest rate is", LowerBound(f), "%">>
    [] f = "tenure" -> <<"Minimum tenure is 1 month">>

MaximumMessage(f) ==
  CASE f = "principal" -> <<"Maximum loan amount is", <<"INR", UpperBound(f)>>>>
    [] f = "interestRate" ->
         <<IF isAnnualRate THEN "Maximum annual interest rate is"
                           ELSE "Maximum monthly interest rate is", UpperBound(f), "%">>
    [] f = "tenure" -> <<"Maximum tenure is", UpperBound(f), "months">>

\* values at and next to the bounds of f, and the values the runs enter
ProbeValues(f) ==
  {LowerBound(f) - 1, LowerBound(f), LowerBound(f) + 1,
   UpperBound(f) - 1, UpperBound(f), UpperBound(f) + 1, 0, -1}
    \cup PrincipalInputs \cup InterestInputs \cup TenureInputs

\* C2: validateInputs(value, field) gives a rejection message exactly when the value is
\* outside the field's bounds in the selected category and convention, nothing
\* otherwise, and the message names the bound that was violated: the minimum when the
\* value is below, the maximum when it is above.
C2_ValidatorBounds ==
  \A f \in Fields : \A v \in ProbeValues(f) :
    /\ (validateInputs(v, f) = Undefined) <=> (LowerBound(f) <= v /\ v <= UpperBound(f))
    /\ v < LowerBound(f) => validateInputs(v, f) = MinimumMessage(f)
    /\ v > UpperBound(f) => validateInputs(v, f) = MaximumMessage(f)

\* C2's case: under the monthly convention a rate of 40 % was entered and rejected with
\* the monthly maximum
C2_Witness ==
  /\ phase = "ui"
  /\ ~isAnnualRate
  /\ last = [op |-> "interestRate", arg |-> 400]
  /\ errors.interestRate = <<"Maximum monthly interest rate is", 50, "%">>

\* C3: after the loan category or the rate convention is switched and the clamp effect
\* has run, whatever was held before, principal lies in [minAmount, maxAmount], interestRate
\* in the bounds of the selected convention and tenure in [1, maxTenure] of the new
\* profile.  (That the switch adds no rejection message is the frame of setLoanType and
\* setIsAnnualRate; the values are what the clamp decides.)
C3_SwitchClampsIntoBounds ==
  (phase = "ui" /\ last.op \in {"loanType", "isAnnualRate"} /\ ~pendingClamp) =>
    \A f \in Fields : InBounds(f)

\* C4: the engine refuses to compute whenever principal - prepayment <= 0, rate < 0 or
\* tenure < 1: no step taken from such a state writes a new emi, totalAmount or
\* totalInterest; in particular a prepayment >= principal with no rejection message
\* produces no installment result.
C4_InvalidInputWritesNothing ==
  [][(phase = "ui" /\ (principal - prepaymentAmount <= 0 \/ interestRate < 0 \/ tenure < 1))
       => UNCHANGED results]_vars

\* C10: a user edit of principal, interestRate or tenure stores exactly the entered
\* value, also when it is out of range, sets that field's rejection entry to the
\* validator's result for the entered value, and leaves the other two fields' values
\* and rejection entries unchanged.
C10_EditStoresEnteredValue ==
  [][\A f \in Fields :
       (nEvents' = nEvents + 1 /\ last'.op = f) =>
         /\ FieldValue(f)' = last'.arg
         /\ errors'[f] = validateInputs(last'.arg, f)
         /\ \A g \in Fields \ {f} : FieldValue(g)' = FieldValue(g) /\ errors'[g] = errors[g]]_vars

\* C10's case: a principal above the category's maximum was entered, and is held as
\* entered together with its rejection
C10_Witness ==
  /\ phase = "ui"
  /\ last = [op |-> "principal", arg |-> 30000000]
  /\ principal = 30000000
  /\ principal > UpperBound("principal")
  /\ errors.principal = MaximumMessage("principal")

\* the effects of the last commit have all run
Settled == phase = "ui" /\ ~pendingClamp /\ ~pendingCalc

\* the schedule is shown: the guard of the JSX around <EMISchedule ... />
ScheduleShown == ~HasErrors /\ JsPositive(emi)

\* the rounded values of the installment formula for the held principal, prepayment,
\* interestRate, tenure and convention
FormulaResults ==
  LET p        == principal - prepaymentAmount
      r        == IF isAnnualRate THEN NFrac(interestRate) ELSE NFrac(12 * interestRate)
      pow      == NPow(NAdd(NOf(1), r), tenure)
      emi0     == QDiv(NMul(NMul(NOf(p), r), pow), NSub(pow, NOf(1)))
      totalAmt == QMulInt(emi0, tenure)
  IN  <<MathRound(emi0), MathRound(totalAmt), MathRound(QSubInt(totalAmt, p))>>

\* C11: after any sequence of edits, prepayment changes, category switches and
\* convention switches, once all effects have run, whenever the schedule is shown the
\* stored emi, totalAmount and totalInterest are the rounded values of the installment
\* formula for the held inputs: no result of earlier inputs is handed to EMISchedule
\* together with newer inputs.
C11_NoStaleResult ==
  (Settled /\ ScheduleShown) => results = FormulaResults

\* C12: in every reachable state after the effects have run, a field carries a
\* rejection message if and only if its held value is outside the bounds of the selected
\* category and convention: a rejection recorded before a switch does not survive once
\* the value is in range, and no out-of-range value is held without a rejection.
C12_RejectionIffOutOfBounds ==
  Settled => \A f \in Fields : (errors[f] # Undefined) <=> ~InBounds(f)

(***************************************************************************)
(* Properties of the engine's runs (SpecEngine).                           *)
(***************************************************************************)
\* C1: for every schedule built from validated inputs with the installment the
\* calculator reports, in both conventions, the balance of the final row is exactly 0
\* and every row's balance is at most the balance of the row before it.
C1_BalanceReachesZero ==
  (phase = "rendered" /\ ValidRequest) =>
    /\ NSign(rows[Len(rows)].balance) = 0
    /\ \A k \in 1..(Len(rows) - 1) : NCmp(rows[k + 1].balance, rows[k].balance) <= 0

C6_RowCount ==
  phase = "rendered" =>
    /\ ~isAnnualRate => Len(rows) = tenure
    /\ isAnnualRate =>
         /\ 12 * Len(rows) >= tenure
         /\ 12 * (Len(rows) - 1) < tenure
         /\ tenure = 12 => Len(rows) = 1
         /\ tenure = 13 => Len(rows) = 2
    /\ \A k \in 1..Len(rows) : rows[k].month = k

\* C6's case: an annual schedule for 13 months, whose second row is the one-month block
C6_Witness ==
  /\ phase = "rendered"
  /\ isAnnualRate
  /\ tenure = 13
  /\ Len(rows) = 2
  /\ rows[2].month = 2

\* the sum of the payments of rows 1..k
RECURSIVE PaymentsUpTo(_, _)
PaymentsUpTo(rs, k) == IF k = 0 THEN 0 ELSE rs[k].emi + PaymentsUpTo(rs, k - 1)

\* C7: under the annual convention every row's payment is the installment times the
\* number of periods in the row's block, so the final row of a tenure that is no
\* multiple of 12 pays installment * (tenure mod 12), and the payments of all rows add
\* up to installment * tenure.
C7_BlockPayment ==
  (phase = "rendered" /\ isAnnualRate) =>
    /\ \A k \in 1..Len(rows) : rows[k].emi = emi.v * Min2(12, tenure - 12 * (k - 1))
    /\ PaymentsUpTo(rows, Len(rows)) = emi.v * tenure

\* C8: with the same effective principal, tenure and installment and a monthly rate of
\* annualRate / 12, the annual row of block k has the balance, cumulative principal paid
\* and cumulative interest paid of the monthly row of period min(12k, tenure); the total
\* interest at the last row is then the same in both conventions.
C8_ConventionsAgree ==
  (phase = "rendered" /\ isAnnualRate /\ interestRate % 12 = 0) =>
    LET monthly == schedule(principal, interestRate \div 12, tenure, emi.v,
                            prepaymentAmount, FALSE)
    IN  \A k \in 1..Len(rows) :
          LET j == Min2(12 * k, tenure)
          IN  /\ NCmp(rows[k].balance, monthly[j].balance) = 0
              /\ NCmp(rows[k].totalPrincipalPaid, monthly[j].totalPrincipalPaid) = 0
              /\ NCmp(rows[k].totalInterestPaid, monthly[j].totalInterestPaid) = 0

\* C8's case: an annual schedule at 12 % over 13 months, two blocks with interest paid
C8_Witness ==
  /\ phase = "rendered"
  /\ isAnnualRate
  /\ interestRate = 120
  /\ tenure = 13
  /\ Len(rows) = 2
  /\ NSign(rows[2].totalInterestPaid) > 0
  /\ NSign(rows[1].balance) > 0

RECURSIVE InterestUpTo(_, _)
InterestUpTo(rs, k) == IF k = 0 THEN NOf(0) ELSE NAdd(InterestUpTo(rs, k - 1), rs[k].interest)

RECURSIVE PrincipalUpTo(_, _)
PrincipalUpTo(rs, k) == IF k = 0 THEN NOf(0) ELSE NAdd(PrincipalUpTo(rs, k - 1), rs[k].principal)

\* C13: for every row of every schedule, in both conventions: cumulative interest paid
\* is the sum of the interest portions of the rows up to it, cumulative principal paid is
\* the prepayment plus the sum of their principal portions, cumulative principal paid
\* plus the running balance after the row is the requested principal (where the row
\* shows the balance clamped to 0, the running balance is at most 0), and both
\* cumulative totals are non-decreasing from row to row.
C13_CumulativeTotals ==
  phase = "rendered" =>
    \A k \in 1..Len(rows) :
      /\ NCmp(rows[k].totalInterestPaid, InterestUpTo(rows, k)) = 0
      /\ NCmp(rows[k].totalPrincipalPaid,
              NAdd(NOf(prepaymentAmount), PrincipalUpTo(rows, k))) = 0
      /\ IF NSign(rows[k].balance) > 0
         THEN NCmp(NAdd(rows[k].totalPrincipalPaid, rows[k].balance), NOf(principal)) = 0
         ELSE NCmp(rows[k].totalPrincipalPaid, NOf(principal)) >= 0
      /\ k > 1 =>
           /\ NCmp(rows[k].totalInterestPaid, rows[k - 1].totalInterestPaid) >= 0
           /\ NCmp(rows[k].totalPrincipalPaid, rows[k - 1].totalPrincipalPaid) >= 0

\* the running balance a row opens with: the effective principal for the first row, and
\* the requested principal less the cumulative principal paid up to the row before
OpeningBalance(rs, k) ==
  IF k = 1 THEN NOf(principal - prepaymentAmount)
  ELSE NSub(NOf(principal), rs[k - 1].totalPrincipalPaid)

\* C14: the effective rate of a row is (interest of the row / opening balance) * 100 * 12
\* under the monthly convention and (block interest / opening balance of the block) * 100,
\* without the factor 12, under the annual convention, and is 0 whenever the opening
\* balance is <= 0; so under the monthly convention every row with a positive opening
\* balance reports 12 times the nominal monthly rate.
C14_EffectiveRate ==
  phase = "rendered" =>
    \A k \in 1..Len(rows) :
      LET opening == OpeningBalance(rows, k)
      IN  IF NSign(opening) <= 0
          THEN QCmp(rows[k].effectiveRate, QOfInt(0)) = 0
          ELSE IF isAnnualRate
          THEN QCmp(rows[k].effectiveRate, QMulInt(QDiv(rows[k].interest, opening), 100)) = 0
          ELSE /\ QCmp(rows[k].effectiveRate,
                       QMulInt(QDiv(rows[k].interest, opening), 1200)) = 0
               /\ QCmp(QMulInt(rows[k].effectiveRate, 10), QOfInt(12 * interestRate)) = 0

\* C14's case: a monthly schedule at 0.7 % whose first row opens with a positive balance
\* and reports 8.4 %, and whose last row opens with a negative balance and reports 0
C14_Witness ==
  /\ phase = "rendered"
  /\ ~isAnnualRate
  /\ interestRate = 7
  /\ tenure = 12
  /\ NSign(OpeningBalance(rows, 1)) > 0
  /\ QCmp(QMulInt(rows[1].effectiveRate, 10), QOfInt(84)) = 0
  /\ NSign(OpeningBalance(rows, 12)) < 0
  /\ QCmp(rows[12].effectiveRate, QOfInt(0)) = 0

====
